---------------------------- MODULE Spec2Model ----------------------------
(***************************************************************************)
(* A model of the Tripwire detector (src/Tripwire.h, src/Tripwire.cpp):    *)
(* the adaptive baseline calibration and the debounced detection state    *)
(* machine driven by update().                                            *)
(*                                                                         *)
(* Function pointers are modelled by three values: "null", "fn" (a valid  *)
(* function) and "wild" (an indeterminate, non-null value left in a       *)
(* member the constructor never wrote).  A call through "null" or "wild"  *)
(* does not return: the object ends in the state `crashed`.               *)
(***************************************************************************)
EXTENDS Integers, Sequences, FiniteSets, TLC

VARIABLES
    \* ---- private members (Tripwire.h:96-100)
    _get_range, _event_start, _event_end, _successive_detections,
    \* ---- public members (Tripwire.h:72-93)
    is_calibrated, num_detections, distance, baseline_distance,
    baseline_variance, distance_threshold, min_baseline_reads,
    max_baseline_reads, max_baseline_variance, baseline_read_interval,
    min_successive_detections, last_event_width, event_start_time,
    \* ---- environment
    sensor,    \* the values the RangeSource may return
    clock,     \* the millisecond clock read by millis()
    elapsed,   \* milliseconds since construction
    \* ---- observation of the last operation
    op,        \* name of the last operation that ran
    branch,    \* the path it took through the code
    called,    \* the callback it invoked: "none", "start" or "end"
    readings,  \* the values its RangeSource calls returned, in order
    delays,    \* number of delay() calls it made
    crashed,   \* a call through a null or wild pointer happened
    \* ---- history of the inputs
    started,   \* start() has run at least once
    runLen,    \* consecutive detecting readings since the last non-detecting
               \* update() or start(), saturating at RunCap
    resetInRun, \* reset_event_status() ran since the last non-detecting
                \* update() or start()
    confirmedAt \* the value of elapsed in the update() that confirmed the
                \* event now active, -1 when no confirmed event is active

vars == << _get_range, _event_start, _event_end, _successive_detections,
           is_calibrated, num_detections, distance, baseline_distance,
           baseline_variance, distance_threshold, min_baseline_reads,
           max_baseline_reads, max_baseline_variance, baseline_read_interval,
           min_successive_detections, last_event_width, event_start_time,
           sensor, clock, elapsed, op, branch, called, readings, delays, crashed,
           started, runLen, resetInRun, confirmedAt >>

config == << distance_threshold, min_baseline_reads, max_baseline_reads,
             max_baseline_variance, baseline_read_interval,
             min_successive_detections >>

pointers == << _get_range, _event_start, _event_end >>

environment == << sensor, clock, elapsed >>

calibration == << is_calibrated, baseline_distance, baseline_variance >>

history == << started, runLen, resetInRun, confirmedAt >>

-----------------------------------------------------------------------------
(* Bounds of the model *)

\* Longest sequence of readings one calibrate() call may draw.
MaxCalReads == 4

\* update() stops confirming events once num_detections reaches this value.
MaxDetections == 2

\* The clock stops ticking, and no calibrate() that has to wait is begun,
\* once this many milliseconds have passed since construction.
MaxElapsed == 1

\* Saturation value of runLen.
RunCap == 4

(* Program constants *)

\* unsigned long is 32 bits wide and its arithmetic is modulo 2^32.  A value
\* is held as << high, low >>, its two 16-bit halves; HalfWord is 2^16.
HalfWord == 65536

DEFAULT_DISTANCE_THRESHOLD == 70

DEFAULT_MAX_BASELINE_VARIANCE == DEFAULT_DISTANCE_THRESHOLD

DEFAULT_MINIMUM_SUCCESSIVE_DETECTIONS == 0

-----------------------------------------------------------------------------
(* Arithmetic of the target *)

\* abs() on a long.
Abs(x) == IF x < 0 THEN -x ELSE x

\* C++ integer division by 2 truncates toward zero.
Half(x) == IF x >= 0 THEN x \div 2 ELSE -((-x) \div 2)

\* The unsigned long of a small natural number.
UL(n) == << n \div HalfWord, n % HalfWord >>

\* The largest unsigned long, 2^32 - 1.
ULMax == << HalfWord - 1, HalfWord - 1 >>

\* a + n on unsigned longs, for a natural number n < 2^16.
ULAdd(a, n) ==
    LET low == a[2] + n
    IN  << (a[1] + (low \div HalfWord)) % HalfWord, low % HalfWord >>

\* a - b on unsigned longs.
ULSub(a, b) ==
    LET low == a[2] - b[2]
        borrow == IF low < 0 THEN 1 ELSE 0
    IN  << (a[1] - b[1] - borrow + HalfWord) % HalfWord,
           (low + HalfWord) % HalfWord >>

\* a < b on unsigned longs.
ULLess(a, b) == a[1] < b[1] \/ (a[1] = b[1] /\ a[2] < b[2])

\* millis(): the current value of the clock.
millis == clock

\* The number of RangeSource calls the last operation made.
reads == Len(readings)

-----------------------------------------------------------------------------
(* Conditions and expressions of calibrate() *)

\* Tripwire.cpp:49  if (_get_range && distance_threshold)
CanCalibrate == _get_range # "null" /\ distance_threshold # 0

\* Tripwire.cpp:51  baseline_variance = baseline_distance;
SeedVariance(first) == first

\* A faulty loop condition: one reading too many is allowed.
KeepReadingOffByOne(n, bv) ==
    /\ (n < min_baseline_reads \/ bv > max_baseline_variance)
    /\ n <= max_baseline_reads

\* Tripwire.cpp:55-56  the loop condition
KeepReading(n, bv) ==
    /\ (n < min_baseline_reads \/ bv > max_baseline_variance)
    /\ n < max_baseline_reads

\* A faulty variance: the deviation is taken with its sign.
NewVarianceSigned(bd, bv, new_range) == Half(bv + (bd - new_range))

\* Tripwire.cpp:58,60  baseline_variance after one more reading
NewVariance(bd, bv, new_range) == Half(bv + Abs(bd - new_range))

\* A faulty average: rounded up instead of truncated.
NewBaselineRoundedUp(bd, new_range) == Half(bd + new_range + 1)

\* Tripwire.cpp:61  baseline_distance after one more reading
NewBaseline(bd, new_range) == Half(bd + new_range)

\* A faulty acceptance test: the ceiling itself is accepted.
CalibrationOkAtCeiling(bv) == bv <= max_baseline_variance

\* Tripwire.cpp:68  if (baseline_variance < max_baseline_variance)
CalibrationOk(bv) == bv < max_baseline_variance

\* Tripwire.cpp:55-65  the loop, fed with the readings rs the RangeSource
\* returns one after the other.  `done` is false when the loop still wants
\* a reading after rs is used up.
RECURSIVE BaselineLoop(_, _, _, _)
BaselineLoop(bd, bv, n, rs) ==
    IF KeepReading(n, bv) /\ rs # << >>
    THEN BaselineLoop(NewBaseline(bd, Head(rs)),
                      NewVariance(bd, bv, Head(rs)), n + 1, Tail(rs))
    ELSE [bd |-> bd, bv |-> bv, n |-> n, left |-> Len(rs),
          done |-> ~KeepReading(n, bv)]

\* Tripwire.cpp:50-65  seed reading, then the loop
Baseline(rs) ==
    BaselineLoop(Head(rs), SeedVariance(Head(rs)), 1, Tail(rs))

\* The sequences of readings a calibrate() call may be fed with: up to one
\* reading more than max_baseline_reads allows, and no more than MaxCalReads.
ReadingSeqs ==
    LET most == IF max_baseline_reads < 1 THEN 2 ELSE max_baseline_reads + 1
        longest == IF most < MaxCalReads THEN most ELSE MaxCalReads
    IN  UNION { [1..k -> sensor] : k \in 0..longest }

\* rs is as long as a sequence of readings may be.
Longest(rs) == \A other \in ReadingSeqs : Len(other) <= Len(rs)

\* Tripwire.cpp:39-72  the body of calibrate(), shared by start().
\* rs holds exactly the readings the call consumes (the loop is cut when it
\* wants more than MaxCalReads of them).
calibrate_body(rs) ==
    IF ~CanCalibrate
    THEN \* skipped: only line 47 runs
         /\ rs = << >>
         /\ is_calibrated' = FALSE
         /\ UNCHANGED << baseline_distance, baseline_variance, environment >>
         /\ branch' = "skipped" /\ readings' = << >> /\ delays' = 0
         /\ crashed' = FALSE
    ELSE IF _get_range # "fn"
    THEN \* line 50 calls through an indeterminate pointer
         /\ rs = << >>
         /\ is_calibrated' = FALSE
         /\ UNCHANGED << baseline_distance, baseline_variance, environment >>
         /\ branch' = "fault" /\ readings' = << >> /\ delays' = 0
         /\ crashed' = TRUE
    ELSE /\ rs # << >>
         /\ LET b == Baseline(rs)
                t == (b.n - 1) * baseline_read_interval
            IN
             /\ b.left = 0
             /\ b.done \/ Longest(rs)
             /\ t = 0 \/ elapsed < MaxElapsed
             /\ baseline_distance' = b.bd
             /\ baseline_variance' = b.bv
             /\ is_calibrated' = CalibrationOk(b.bv)
             /\ clock' = ULAdd(clock, t)
             /\ elapsed' = elapsed + t
             /\ UNCHANGED sensor
             /\ branch' = IF b.done THEN "ran" ELSE "cut"
             /\ readings' = rs /\ delays' = b.n - 1
             /\ crashed' = FALSE

\* Tripwire.cpp:39-72
calibrate(rs) ==
    /\ ~crashed
    /\ calibrate_body(rs)
    /\ op' = "calibrate" /\ called' = "none"
    /\ UNCHANGED << pointers, config, _successive_detections, num_detections,
                    distance, last_event_width, event_start_time, history >>

\* Tripwire.cpp:25-37
start(rs) ==
    /\ ~crashed
    /\ event_start_time' = UL(0)
    /\ last_event_width' = UL(0)
    /\ _successive_detections' = 0
    /\ num_detections' = UL(0)
    /\ calibrate_body(rs)
    /\ op' = "start" /\ called' = "none"
    /\ started' = TRUE /\ runLen' = 0 /\ resetInRun' = FALSE
    /\ confirmedAt' = -1
    /\ UNCHANGED << pointers, config, distance >>

-----------------------------------------------------------------------------
(* Conditions of update() *)

\* Tripwire.cpp:83  if ((baseline_distance - distance) > distance_threshold)
Detected(d) == (baseline_distance - d) > distance_threshold

\* A faulty confirmation test: it stays true while the event is active.
EventStartsLevel == _successive_detections >= min_successive_detections

\* Tripwire.cpp:86  if (_successive_detections == min_successive_detections)
EventStarts == _successive_detections = min_successive_detections

\* Tripwire.cpp:98  else if (_successive_detections < min_successive_detections)
NotEnoughYet == _successive_detections < min_successive_detections

\* A faulty end test: a counter of 1 does not count as an event.
EventActiveAboveOne == _successive_detections > 1

\* A faulty end test: an idle detector ends an event too.
EventActiveOrIdle == _successive_detections >= 0

\* A faulty end test: only a confirmed event ends.
EventActiveConfirmed == _successive_detections > min_successive_detections

\* Tripwire.cpp:105  if (_successive_detections > 0)
EventActive == _successive_detections > 0

\* A faulty width: a clock that reads below event_start_time gives 0.
EventWidthClamped ==
    IF ULLess(millis, event_start_time)
    THEN UL(0) ELSE ULSub(millis, event_start_time)

\* A faulty count: an event is counted twice.
IncrementedTwice(n) == ULAdd(n, 2)

\* Tripwire.cpp:89  num_detections++ on an unsigned long
Incremented(n) == ULAdd(n, 1)

\* Tripwire.cpp:106  millis() - event_start_time on unsigned longs
EventWidth == ULSub(millis, event_start_time)

\* Tripwire.cpp:92-94, 109-111  if (cb) { (*cb)(); }  for the callback `name`
\* held in pointer cb: what is invoked, and whether the call returns.
Invoke(cb, name) ==
    /\ called' = IF cb = "fn" THEN name ELSE "none"
    /\ crashed' = (cb = "wild")

\* The history of the inputs after an update() with reading d.
Observe(d) ==
    IF Detected(d)
    THEN /\ runLen' = IF runLen < RunCap THEN runLen + 1 ELSE RunCap
         /\ UNCHANGED resetInRun
    ELSE /\ runLen' = 0
         /\ resetInRun' = FALSE

\* A faulty update(): the baseline follows the previous reading.
update_tracks_baseline ==
    /\ baseline_distance' = distance
    /\ UNCHANGED << pointers, config, is_calibrated, baseline_variance >>

\* Tripwire.cpp:74-115 assigns none of the pointers, the configuration or
\* the results of calibration.
update_keeps ==
    UNCHANGED << pointers, config, calibration >>

\* Tripwire.cpp:74-115; d is the value the RangeSource returns.
update(d) ==
    /\ ~crashed
    /\ op' = "update" /\ delays' = 0
    /\ update_keeps
    /\ UNCHANGED << environment, started >>
    /\ IF _get_range # "fn"
       THEN \* line 80 calls through a null or indeterminate pointer
            /\ branch' = "fault" /\ readings' = << >> /\ called' = "none"
            /\ crashed' = TRUE
            /\ UNCHANGED << distance, _successive_detections, num_detections,
                            event_start_time, last_event_width, runLen,
                            resetInRun, confirmedAt >>
       ELSE /\ distance' = d /\ readings' = << d >>
            /\ Observe(d)
            /\ IF Detected(d)
               THEN IF EventStarts
                    THEN \* lines 87-94
                         /\ num_detections # UL(MaxDetections)
                         /\ branch' = "confirm"
                         /\ _successive_detections' = _successive_detections + 1
                         /\ event_start_time' = millis
                         /\ num_detections' = Incremented(num_detections)
                         /\ Invoke(_event_start, "start")
                         /\ confirmedAt' = elapsed
                         /\ UNCHANGED last_event_width
                    ELSE IF NotEnoughYet
                    THEN \* line 99
                         /\ branch' = "arming"
                         /\ _successive_detections' = _successive_detections + 1
                         /\ called' = "none" /\ crashed' = FALSE
                         /\ UNCHANGED << num_detections, event_start_time,
                                         last_event_width, confirmedAt >>
                    ELSE \* the event is already active
                         /\ branch' = "hold"
                         /\ called' = "none" /\ crashed' = FALSE
                         /\ UNCHANGED << _successive_detections, num_detections,
                                         event_start_time, last_event_width,
                                         confirmedAt >>
               ELSE IF EventActive
                    THEN \* lines 106-111, then 113 when the callback returns
                         /\ branch' = "end"
                         /\ last_event_width' = EventWidth
                         /\ Invoke(_event_end, "end")
                         /\ _successive_detections' =
                                IF _event_end = "wild"
                                THEN _successive_detections ELSE 0
                         /\ confirmedAt' = -1
                         /\ UNCHANGED << num_detections, event_start_time >>
                    ELSE \* line 113
                         /\ branch' = "idle"
                         /\ _successive_detections' = 0
                         /\ called' = "none" /\ crashed' = FALSE
                         /\ confirmedAt' = -1
                         /\ UNCHANGED << num_detections, event_start_time,
                                         last_event_width >>

\* An operation that only assigns members: nothing is read, called or delayed.
Quiet(name) ==
    /\ op' = name /\ branch' = "none" /\ called' = "none"
    /\ readings' = << >> /\ delays' = 0 /\ crashed' = FALSE

\* A faulty setter: it stores whatever it is given, NULL included.
AssignedAlways(stored, given) ==
    given

\* Tripwire.cpp:123-125, 133-135, 143-145: "if (x != NULL) member = x;"
Assigned(stored, given) ==
    IF given # "null" THEN given ELSE stored

\* A setter: as Quiet, with the argument kept in branch for observation.
Setter(given) ==
    /\ op' = "set" /\ branch' = given /\ called' = "none"
    /\ readings' = << >> /\ delays' = 0 /\ crashed' = FALSE

\* Tripwire.cpp:117-126
set_range_function(function) ==
    /\ ~crashed
    /\ _get_range' = Assigned(_get_range, function)
    /\ Setter(function)
    /\ UNCHANGED << _event_start, _event_end, _successive_detections, config,
                    calibration, num_detections, distance, last_event_width,
                    event_start_time, environment, history >>

\* Tripwire.cpp:128-136
set_event_start_callback(callback) ==
    /\ ~crashed
    /\ _event_start' = Assigned(_event_start, callback)
    /\ Setter(callback)
    /\ UNCHANGED << _get_range, _event_end, _successive_detections, config,
                    calibration, num_detections, distance, last_event_width,
                    event_start_time, environment, history >>

\* Tripwire.cpp:138-146
set_event_end_callback(callback) ==
    /\ ~crashed
    /\ _event_end' = Assigned(_event_end, callback)
    /\ Setter(callback)
    /\ UNCHANGED << _get_range, _event_start, _successive_detections, config,
                    calibration, num_detections, distance, last_event_width,
                    event_start_time, environment, history >>

\* A faulty reset: it also clears the count of events, as start() does.
reset_event_status_and_count ==
    /\ ~crashed
    /\ _successive_detections' = 0
    /\ num_detections' = UL(0)
    /\ Quiet("reset_event_status")
    /\ resetInRun' = TRUE /\ confirmedAt' = -1
    /\ UNCHANGED << pointers, config, calibration, distance,
                    last_event_width, event_start_time, environment,
                    started, runLen >>

\* Tripwire.cpp:148-154
reset_event_status ==
    /\ ~crashed
    /\ _successive_detections' = 0
    /\ Quiet("reset_event_status")
    /\ resetInRun' = TRUE /\ confirmedAt' = -1
    /\ UNCHANGED << pointers, config, calibration, num_detections, distance,
                    last_event_width, event_start_time, environment,
                    started, runLen >>

\* One millisecond passes between two operations.
Tick ==
    /\ ~crashed
    /\ elapsed < MaxElapsed
    /\ clock' = ULAdd(clock, 1)
    /\ elapsed' = elapsed + 1
    /\ Quiet("Tick")
    /\ UNCHANGED << pointers, config, calibration, _successive_detections,
                    num_detections, distance, last_event_width,
                    event_start_time, sensor, history >>

-----------------------------------------------------------------------------
(* The state after construction *)

\* Tripwire.cpp:3-23  Tripwire(get_range); members the constructor does not
\* write keep the values u they had in the object's storage.
Tripwire(get_range, u) ==
    /\ _get_range = IF get_range # "null" THEN get_range ELSE u.get_range
    /\ _event_start = u.event_start
    /\ _event_end = u.event_end
    /\ _successive_detections = u.successive_detections
    /\ num_detections = u.num_detections
    /\ last_event_width = u.last_event_width
    /\ event_start_time = u.event_start_time
    /\ is_calibrated = FALSE
    /\ distance = 0
    /\ baseline_distance = 0
    /\ baseline_variance = 0

\* Storage contents before construction: all zero (static storage), or
\* arbitrary values (automatic or dynamic storage).
Storage ==
    [ get_range : {"null"}, event_start : {"null"}, event_end : {"null"},
      successive_detections : {0},
      num_detections : {UL(0)}, last_event_width : {UL(0)},
      event_start_time : {UL(0)} ]
    \cup
    [ get_range : {"wild"}, event_start : {"wild"}, event_end : {"wild"},
      successive_detections : {-1, 3}, num_detections : {ULMax},
      last_event_width : {UL(9)}, event_start_time : {UL(5)} ]

\* The observation and history variables before any operation.
Fresh ==
    /\ op = "Tripwire" /\ branch = "none" /\ called = "none"
    /\ readings = << >> /\ delays = 0 /\ crashed = FALSE
    /\ started = FALSE /\ runLen = 0 /\ resetInRun = FALSE
    /\ confirmedAt = -1
    /\ elapsed = 0

\* Detection: the object as constructed, the debounce depth chosen by the
\* caller, short calibrations.
Init ==
    /\ \E get_range \in {"null", "fn"}, u \in Storage : Tripwire(get_range, u)
    /\ distance_threshold = DEFAULT_DISTANCE_THRESHOLD
    /\ max_baseline_variance = DEFAULT_MAX_BASELINE_VARIANCE
    /\ min_baseline_reads = 1
    /\ max_baseline_reads = 2
    /\ baseline_read_interval = 0
    /\ min_successive_detections \in {DEFAULT_MINIMUM_SUCCESSIVE_DETECTIONS, 1, 2}
    /\ sensor = {20, 100}
    /\ clock = ULMax
    /\ Fresh

Next ==
    \/ \E rs \in ReadingSeqs : start(rs)
    \/ \E rs \in ReadingSeqs : calibrate(rs)
    \/ \E d \in sensor : update(d)
    \/ \E f \in {"null", "fn"} : set_range_function(f)
    \/ \E c \in {"null", "fn"} : set_event_start_callback(c)
    \/ \E c \in {"null", "fn"} : set_event_end_callback(c)
    \/ reset_event_status
    \/ Tick

Spec == Init /\ [][Next]_vars

\* Event widths: an object in static storage with its RangeSource, and a
\* clock that starts at 0, just below a carry into its high half, or just
\* below its wrap-around.
InitClock ==
    /\ \E u \in Storage :
          /\ u.get_range = "null"
          /\ Tripwire("fn", u)
    /\ distance_threshold = DEFAULT_DISTANCE_THRESHOLD
    /\ max_baseline_variance = DEFAULT_MAX_BASELINE_VARIANCE
    /\ min_baseline_reads = 1
    /\ max_baseline_reads = 2
    /\ baseline_read_interval = 0
    /\ min_successive_detections \in {DEFAULT_MINIMUM_SUCCESSIVE_DETECTIONS, 1}
    /\ sensor = {20, 100}
    /\ clock \in {UL(0), UL(HalfWord - 1), ULMax}
    /\ Fresh

SpecClock == InitClock /\ [][Next]_vars

\* Calibration: every combination of the calibration parameters, a
\* RangeSource that also returns negative values, default debounce depth.
InitCal ==
    /\ \E get_range \in {"null", "fn"}, u \in Storage : Tripwire(get_range, u)
    /\ distance_threshold \in {0, DEFAULT_DISTANCE_THRESHOLD}
    /\ max_baseline_variance \in {0, 20, DEFAULT_MAX_BASELINE_VARIANCE}
    /\ min_baseline_reads \in {1, 2}
    /\ max_baseline_reads \in {0, 1, 3}
    /\ baseline_read_interval \in {0, 1}
    /\ min_successive_detections = DEFAULT_MINIMUM_SUCCESSIVE_DETECTIONS
    /\ sensor = {-30, 20, 100}
    /\ clock = UL(0)
    /\ Fresh

\* update() writes none of the members calibrate() reads, and the callbacks
\* are not used by calibrate(): the calibration is explored without them.
NextCal ==
    \/ \E rs \in ReadingSeqs : start(rs)
    \/ \E rs \in ReadingSeqs : calibrate(rs)
    \/ \E f \in {"null", "fn"} : set_range_function(f)
    \/ Tick

SpecCal == InitCal /\ [][NextCal]_vars

-----------------------------------------------------------------------------
(* Vocabulary of the properties *)

\* The step is an update() call that read the RangeSource and got d.
UpdateRead(d) == op' = "update" /\ readings' = << d >>

\* The step is an update() call whose reading is a detection / is none.
DetectingUpdate == \E d \in sensor : UpdateRead(d) /\ Detected(d)

QuietUpdate == \E d \in sensor : UpdateRead(d) /\ ~Detected(d)

\* start() has run and no reset_event_status() interfered with the current
\* run of readings: the counter follows the readings alone.
CleanRun == started /\ ~resetInRun

\* Both callbacks are registered.
Registered == _event_start = "fn" /\ _event_end = "fn"

\* The last operation was calibrate(), directly or through start(), and it
\* returned.
CalReturned == op \in {"calibrate", "start"} /\ ~crashed

\* Every reading of rs deviates from the running baseline, which starts at bd,
\* by more than max_baseline_variance.
RECURSIVE Deviating(_, _)
Deviating(bd, rs) ==
    \/ rs = << >>
    \/ /\ Abs(bd - Head(rs)) > max_baseline_variance
       /\ Deviating(Half(bd + Head(rs)), Tail(rs))

\* The RangeSource returned the same value on every call.
ConstantSource == \A i \in 1..Len(readings) : readings[i] = readings[1]

AtLeastOne(n) == IF n < 1 THEN 1 ELSE n

-----------------------------------------------------------------------------
(* Detection: properties of update(), checked under Spec *)

\* C1: with min_successive_detections = 0, after start() and with both
\* callbacks registered, every maximal run of detecting readings fires
\* onEventStart exactly once, on its first reading, adding exactly 1 to
\* num_detections; it fires onEventEnd exactly once, on the first
\* non-detecting reading after it; no other update() fires a callback or
\* changes num_detections.
C1_OneStartOneEndPerRun ==
    [][ (CleanRun /\ Registered /\ min_successive_detections = 0)
        => /\ (DetectingUpdate /\ runLen = 0)
                => (called' = "start"
                    /\ num_detections' = ULAdd(num_detections, 1))
           /\ (DetectingUpdate /\ runLen > 0)
                => (called' = "none" /\ num_detections' = num_detections)
           /\ (QuietUpdate /\ runLen > 0)
                => (called' = "end" /\ num_detections' = num_detections)
           /\ (QuietUpdate /\ runLen = 0)
                => (called' = "none" /\ num_detections' = num_detections)
      ]_vars

\* The readings [.., 20, 20, 100] against baseline 100: the event of two
\* detecting readings has just ended, and it is the only one counted.
C1_Witness ==
    /\ CleanRun /\ Registered /\ min_successive_detections = 0
    /\ baseline_distance = 100
    /\ op = "update" /\ called = "end" /\ distance = 100
    /\ num_detections = UL(1)

\* C2: for min_successive_detections = N >= 1, counting from the idle state,
\* the N-th consecutive detecting update() confirms the event (onEventStart
\* is due, num_detections grows by 1) and no earlier one does.
C2_ConfirmedOnNthDetection ==
    [][ (CleanRun /\ min_successive_detections >= 1 /\ DetectingUpdate)
        => /\ (runLen + 1 = min_successive_detections)
                => (branch' = "confirm"
                    /\ num_detections' = ULAdd(num_detections, 1))
           /\ (runLen + 1 < min_successive_detections)
                => (branch' # "confirm" /\ num_detections' = num_detections)
      ]_vars

\* C3: in one run of detecting readings the event is confirmed at most once
\* (only by the reading that follows min_successive_detections detecting
\* ones), and a detecting update() that finds the event active invokes no
\* callback and leaves the counter, num_detections and event_start_time.
C3_EdgeTriggered ==
    [][ DetectingUpdate
        => /\ (CleanRun /\ branch' = "confirm")
                => runLen = min_successive_detections
           /\ ((CleanRun /\ runLen > min_successive_detections)
               \/ _successive_detections > min_successive_detections)
                => /\ called' = "none" /\ ~crashed'
                   /\ UNCHANGED << _successive_detections, num_detections,
                                   event_start_time >>
      ]_vars

\* A detecting update() found the event active, some time after the update()
\* that confirmed it.
C3_Witness ==
    /\ CleanRun /\ op = "update" /\ branch = "hold"
    /\ runLen > min_successive_detections + 1
    /\ min_successive_detections = 1
    /\ event_start_time # millis
    /\ num_detections = UL(1)

\* C4: once start() has run, no operation other than start() decreases
\* num_detections; it changes only in an update() that confirms an event,
\* and then by exactly 1; a detecting reading that comes before
\* min_successive_detections others and a non-detecting reading leave it,
\* and an update() with a non-detecting reading that returns leaves the
\* counter at 0.
C4_CountsConfirmedEvents ==
    [][ (started /\ op' # "start")
        => /\ ~ULLess(num_detections', num_detections)
           /\ (op' = "update" /\ branch' = "confirm")
                => num_detections' = ULAdd(num_detections, 1)
           /\ ~(op' = "update" /\ branch' = "confirm")
                => num_detections' = num_detections
           /\ (DetectingUpdate /\ runLen < min_successive_detections)
                => num_detections' = num_detections
           /\ (QuietUpdate /\ ~crashed')
                => (num_detections' = num_detections
                    /\ _successive_detections' = 0)
      ]_vars

\* A run of fewer than min_successive_detections detecting readings was
\* ended by a non-detecting one: nothing was counted.
C4_Witness ==
    /\ started /\ min_successive_detections = 2
    /\ op = "update" /\ branch = "end" /\ ~crashed
    /\ num_detections = UL(0) /\ _successive_detections = 0

\* C9: while no RangeSource is registered, update() returns without an error
\* and without calling anything: distance, the counter and num_detections
\* keep their values and no callback is invoked.
C9_UpdateWithoutSourceIsNoOp ==
    [][ (_get_range # "fn" /\ op' = "update")
        => /\ ~crashed'
           /\ called' = "none" /\ readings' = << >>
           /\ UNCHANGED << distance, _successive_detections, num_detections >>
      ]_vars

\* C11: reset_event_status() sets the counter to 0, invokes no callback and
\* leaves num_detections, event_start_time and last_event_width; a
\* non-detecting update() directly after it invokes no onEventEnd and leaves
\* last_event_width; with min_successive_detections = 0 a detecting update()
\* directly after it confirms an event again: num_detections grows by 1 and
\* a registered onEventStart is invoked.
C11_ResetSuppressesEndAndRearms ==
    [][ /\ (op' = "reset_event_status")
             => /\ _successive_detections' = 0 /\ called' = "none"
                /\ UNCHANGED << num_detections, event_start_time,
                                last_event_width >>
        /\ (op = "reset_event_status" /\ QuietUpdate)
             => /\ called' = "none" /\ _successive_detections' = 0
                /\ UNCHANGED << num_detections, event_start_time,
                                last_event_width >>
        /\ (op = "reset_event_status" /\ DetectingUpdate
                /\ min_successive_detections = 0)
             => /\ num_detections' = ULAdd(num_detections, 1)
                /\ _event_start = "fn" => called' = "start"
      ]_vars

\* An active event was reset in the middle of its run of detecting readings
\* and the next detecting reading started, and counted, a second event.
C11_Witness ==
    /\ started /\ min_successive_detections = 0 /\ resetInRun
    /\ runLen >= 2 /\ op = "update" /\ called = "start"
    /\ num_detections = UL(2)

\* C12: update() leaves baseline_distance, baseline_variance, is_calibrated
\* and every configuration field as they were, whatever the state and the
\* reading.
C12_UpdateKeepsCalibration ==
    [][ (op' = "update") => UNCHANGED << calibration, config >> ]_vars

\* update() has confirmed an event against a baseline that calibration set.
C12_Witness ==
    /\ op = "update" /\ branch = "confirm" /\ distance = 20
    /\ is_calibrated /\ baseline_distance = 100

\* C13: a non-detecting update() that directly follows a non-detecting
\* update(), or that finds the counter at 0, invokes no callback and leaves
\* num_detections, event_start_time, last_event_width and the counter.
C13_QuietUpdatesIdempotent ==
    [][ ( /\ QuietUpdate
          /\ \/ op = "update" /\ runLen = 0
             \/ _successive_detections = 0 )
        => /\ called' = "none"
           /\ UNCHANGED << num_detections, event_start_time,
                           last_event_width, _successive_detections >>
      ]_vars

\* An event of width 1 has ended and a further non-detecting update() has
\* run after the one that ended it.
C13_Witness ==
    /\ op = "update" /\ branch = "idle" /\ distance = 100
    /\ started /\ num_detections = UL(1) /\ last_event_width = UL(1)
    /\ _event_end = "fn"

\* C14: a setter given NULL leaves the three stored pointers; a setter given
\* a function stores it in its own member and leaves the other two; no other
\* operation assigns them; so a registered RangeSource or callback stays
\* registered.
C14_SettersIgnoreNull ==
    [][ /\ (op' = "set" /\ branch' = "null") => UNCHANGED pointers
        /\ (op' = "set" /\ branch' = "fn")
             => \/ _get_range' = "fn"
                   /\ UNCHANGED << _event_start, _event_end >>
                \/ _event_start' = "fn"
                   /\ UNCHANGED << _get_range, _event_end >>
                \/ _event_end' = "fn"
                   /\ UNCHANGED << _get_range, _event_start >>
        /\ (op' # "set") => UNCHANGED pointers
        /\ (_get_range = "fn") => (_get_range' = "fn")
        /\ (_event_start = "fn") => (_event_start' = "fn")
        /\ (_event_end = "fn") => (_event_end' = "fn")
      ]_vars

\* All three are registered, events have been detected, and a setter has
\* just been called with NULL.
C14_Witness ==
    /\ op = "set" /\ branch = "null"
    /\ _get_range = "fn" /\ Registered
    /\ started /\ num_detections = UL(1)

\* C15: after start() returns, distance, the counter, event_start_time,
\* last_event_width and num_detections are all 0 and start() has invoked no
\* callback.
C15_StartResetsRuntimeState ==
    (op = "start" /\ ~crashed)
        => /\ distance = 0
           /\ _successive_detections = 0
           /\ event_start_time = UL(0)
           /\ last_event_width = UL(0)
           /\ num_detections = UL(0)
           /\ called = "none"

\* C16: after every start(), calibrate(), update() and reset_event_status()
\* the counter is at least 0 and at most min_successive_detections + 1.
C16_CounterBounded ==
    (op \in {"start", "calibrate", "update", "reset_event_status"} /\ ~crashed)
        => /\ 0 <= _successive_detections
           /\ _successive_detections <= min_successive_detections + 1

\* C17: a non-detecting update() that finds the counter above 0 rewrites
\* last_event_width with the clock minus event_start_time and invokes a
\* registered onEventEnd, whether or not the run was confirmed; one that
\* finds the counter at 0 or below invokes nothing and leaves
\* last_event_width.
C17_EndIffCounterPositive ==
    [][ QuietUpdate
        => IF _successive_detections > 0
           THEN /\ last_event_width' = ULSub(clock, event_start_time)
                /\ (_event_end = "fn") => (called' = "end")
                /\ (_event_end = "null") => (called' = "none")
           ELSE /\ called' = "none"
                /\ last_event_width' = last_event_width
      ]_vars

\* A run that never reached confirmation has ended: onEventEnd was invoked
\* although no event was counted since start(), and the width is the clock
\* minus the event_start_time that start() left at 0.
C17_Witness ==
    /\ started /\ min_successive_detections = 2
    /\ op = "update" /\ branch = "end" /\ called = "end"
    /\ num_detections = UL(0) /\ event_start_time = UL(0)
    /\ last_event_width = ULMax

-----------------------------------------------------------------------------
(* Event widths: properties of the clock arithmetic, checked under SpecClock *)

\* C18: when a non-detecting update() ends a confirmed event, with no
\* start() or reset_event_status() since the update() that confirmed it,
\* last_event_width is the number of milliseconds that passed between the
\* two updates, also when the 32-bit clock wrapped around in between.
C18_WidthIsClockDifference ==
    [][ (QuietUpdate /\ confirmedAt >= 0)
        => /\ branch' = "end"
           /\ last_event_width' = UL(elapsed - confirmedAt)
      ]_vars

\* An event was confirmed with the clock at its highest value and ended one
\* millisecond later, after the clock had wrapped to 0.
C18_Witness ==
    /\ op = "update" /\ branch = "end" /\ called = "end"
    /\ event_start_time = ULMax /\ clock = UL(0)
    /\ last_event_width = UL(1) /\ num_detections = UL(1)

-----------------------------------------------------------------------------
(* Calibration: properties of calibrate(), checked under SpecCal *)

\* C5 as stated: after every return of calibrate(), skipped or not,
\* is_calibrated <=> baseline_variance < max_baseline_variance.
C5_CalibratedIffVarianceBelow ==
    CalReturned => (is_calibrated <=> baseline_variance < max_baseline_variance)

\* C5, amended: after every return of a calibrate() that was not skipped,
\* is_calibrated <=> baseline_variance < max_baseline_variance; after a
\* skipped one is_calibrated is false.
C5_CalibratedIffVarianceBelowWhenRun ==
    CalReturned
    => IF reads > 0
       THEN is_calibrated <=> baseline_variance < max_baseline_variance
       ELSE ~is_calibrated

\* A calibration ended with baseline_variance equal to the ceiling: failed.
C5_Witness ==
    /\ CalReturned /\ reads > 0
    /\ baseline_variance = max_baseline_variance /\ ~is_calibrated

\* C6 as stated: calibrate() returns after at most
\* max(1, max_baseline_reads) readings, and after at least min_baseline_reads
\* when min_baseline_reads <= max_baseline_reads, in every configuration.
C6_ReadsBounded ==
    CalReturned
    => /\ branch # "cut"
       /\ reads <= AtLeastOne(max_baseline_reads)
       /\ (min_baseline_reads <= max_baseline_reads)
            => reads >= min_baseline_reads

\* C6, amended: calibrate() returns after at most max(1, max_baseline_reads)
\* readings; when it is not skipped and min_baseline_reads <=
\* max_baseline_reads, after at least min_baseline_reads; when it is skipped,
\* after none.
C6_ReadsBoundedWhenRun ==
    CalReturned
    => /\ branch # "cut"
       /\ reads <= AtLeastOne(max_baseline_reads)
       /\ (CanCalibrate /\ min_baseline_reads <= max_baseline_reads)
            => reads >= min_baseline_reads
       /\ ~CanCalibrate => reads = 0

\* A calibration that never settled stopped at max_baseline_reads readings.
C6_Witness ==
    /\ CalReturned /\ max_baseline_reads = 3 /\ reads = 3
    /\ baseline_variance > max_baseline_variance

\* C7 as stated: when every reading of the loop deviates from the running
\* baseline by more than max_baseline_variance, calibrate() takes exactly
\* max_baseline_reads readings and fails.
C7_DeviatingSourceUsesAllReads ==
    (CalReturned /\ reads > 0 /\ Deviating(readings[1], Tail(readings)))
    => (reads = max_baseline_reads /\ ~is_calibrated)

\* C7, amended: when moreover the first reading is above
\* max_baseline_variance, calibrate() takes exactly
\* max(1, max_baseline_reads) readings and fails.
C7_DeviatingSourceAboveCeilingUsesAllReads ==
    (/\ CalReturned /\ reads > 0
     /\ readings[1] > max_baseline_variance
     /\ Deviating(readings[1], Tail(readings)))
    => (reads = AtLeastOne(max_baseline_reads) /\ ~is_calibrated)

\* Three readings, the first above the ceiling, each far from the baseline.
C7_Witness ==
    /\ CalReturned /\ reads = 3 /\ max_baseline_reads = 3
    /\ readings[1] > max_baseline_variance
    /\ Deviating(readings[1], Tail(readings))
    /\ ~is_calibrated

\* C8: when the RangeSource returns the same value V on every call and
\* max_baseline_variance > 0, a calibrate() that is not skipped leaves
\* baseline_distance = V.
C8_ConstantSourceGivesItsValue ==
    (CalReturned /\ reads > 0 /\ max_baseline_variance > 0 /\ ConstantSource)
    => baseline_distance = readings[1]

\* A negative constant, averaged at least once.
C8_Witness ==
    /\ CalReturned /\ reads >= 2 /\ max_baseline_variance > 0
    /\ ConstantSource /\ readings[1] < 0
    /\ baseline_distance = readings[1]

\* C10: a calibrate() called while no RangeSource is registered or while
\* distance_threshold = 0 returns having read nothing and waited for nothing,
\* with baseline_distance and baseline_variance as they were and
\* is_calibrated false.
C10_SkippedCalibration ==
    [][ (/\ op' \in {"calibrate", "start"}
         /\ (_get_range # "fn" \/ distance_threshold = 0))
        => /\ ~crashed'
           /\ readings' = << >> /\ delays' = 0
           /\ UNCHANGED << baseline_distance, baseline_variance, clock >>
           /\ ~is_calibrated'
      ]_vars

\* C19: after calibrate() has read the sensor and returned, baseline_variance
\* is at least 0; after a single reading it is the magnitude of that reading,
\* and the calibration succeeded only if that magnitude is below
\* max_baseline_variance.
C19_SeedVarianceIsMagnitude ==
    (CalReturned /\ reads > 0)
        => /\ baseline_variance >= 0
           /\ (reads = 1) => baseline_variance = Abs(readings[1])
           /\ (reads = 1 /\ is_calibrated)
                => Abs(readings[1]) < max_baseline_variance

\* C20: a calibrate() that read the sensor fewer than max_baseline_reads times
\* ended with baseline_variance below max_baseline_variance and calibrated;
\* one that failed read it max_baseline_reads times or more.
C20_EarlyStopImpliesSuccess ==
    (CalReturned /\ reads > 0)
        => /\ (reads < max_baseline_reads)
                => /\ baseline_variance < max_baseline_variance
                   /\ is_calibrated
           /\ ~is_calibrated => reads >= max_baseline_reads

=============================================================================
